---- MODULE Spec2Model ----
(***************************************************************************)
(* A model of MapGrayscaleConv.cpp: main() reads a file name, validates    *)
(* it, decodes the image with cv::imread, converts it with                 *)
(* grayscaleConversion (a tbb::parallel_for over a blocked_range2d<int>)   *)
(* and writes and shows the result.                                        *)
(*                                                                         *)
(* Four specifications share the state:                                    *)
(*   Spec       the whole program, main() from the prompt to its return;   *)
(*   SpecApply  grayscaleConversion called on any source Mat (0 rows or 0  *)
(*              columns included) with a destination of the same size;     *)
(*   SpecCaller grayscaleConversion called with a destination of any size, *)
(*              in a debug or a release build of cv::Mat::at;              *)
(*   SpecKernel the per-pixel arithmetic of lines 34-40 on its own.        *)
(***************************************************************************)
EXTENDS Integers, Sequences, FiniteSets, TLC

VARIABLES
    pc,             \* where main() / grayscaleConversion() stands
    file_name,      \* main: string file_name, as [pad, tail] (see FileNames)
    extension,      \* main: string extension
    exitCode,       \* main's return value, -1 while it runs
    out,            \* what main wrote to cout, in order
    colorImage,     \* Mat colorImage / Mat& input
    grayscaleImage, \* Mat grayscaleImage / Mat& output
    result,         \* main: string result, as the name given to imwrite
    io,             \* the collaborators: what imread, imwrite, imshow were asked
    build,          \* "release" or "debug": whether CV_DbgAssert is compiled in
    nworkers,       \* threads of the TBB arena, the calling thread included
    pool,           \* tasks (sub-ranges) spawned and not yet taken
    workers,        \* per thread: the sub-range it holds or runs, and its (i, j)
    done,           \* sub-ranges whose body has returned
    ctx,            \* the task_group_context: cancellation and captured exception
    wlog,           \* per source coordinate: the threads that stored to it, in order
    heap,           \* memory outside both Mats: "ok" or "corrupt"
    kernel          \* SpecKernel: one pixel, its sum, gray_value and stored byte

mainVars   == <<file_name, extension, exitCode, out, result, io>>
applyVars  == <<colorImage, grayscaleImage, build, nworkers, pool, workers, done,
                ctx, wlog, heap>>
vars       == <<pc, file_name, extension, exitCode, out, colorImage,
                grayscaleImage, result, io, build, nworkers, pool, workers,
                done, ctx, wlog, heap, kernel>>

(***************************************************************************)
(* Bounds of the model.                                                    *)
(***************************************************************************)
MaxCells == 4
MaxWorkers == 2

(***************************************************************************)
(* Constants of the program.                                               *)
(***************************************************************************)
UCHAR_MAX == 255
INT_MAX == 2147483647
MinNameLen == 4
NameLenLimit == 256
MaxResultLen == 255
Divisor == 3
GrainSize == 1

Uninit == -1
NoKernel == [pixel |-> <<0, 0, 0>>, sum |-> 0, gray_value |-> 0, stored |-> 0,
             ran |-> FALSE]

(***************************************************************************)
(* Integer arithmetic as the compiler does it.                             *)
(***************************************************************************)
\* Two's complement wrap to int (the operands of + are promoted to int).
WrapInt(v) ==
    IF v > INT_MAX THEN ((v - INT_MAX) - INT_MAX) - 2 ELSE v

\* C++ integer division truncates toward zero.
TruncDiv(a, b) ==
    IF a >= 0 THEN a \div b ELSE -((-a) \div b)

\* static_cast<uchar>(int): reduction modulo 2^8.
ToUchar(v) == v % (UCHAR_MAX + 1)

\* A mutant of Sum3: the sum accumulated in an 8-bit uchar.
Sum3Narrow(intensity) ==
    ToUchar(ToUchar(intensity[1] + intensity[2]) + intensity[3])

\* line 37, the parenthesis: intensity[0] + intensity[1] + intensity[2]
Sum3(intensity) ==
    WrapInt(WrapInt(intensity[1] + intensity[2]) + intensity[3])

\* line 37: int gray_value = (...) / 3
gray_value(intensity) == TruncDiv(Sum3(intensity), Divisor)

\* line 40: static_cast<uchar>(gray_value)
Stored(intensity) == ToUchar(gray_value(intensity))

(***************************************************************************)
(* cv::Mat, continuous storage: element (i, j) lives at offset             *)
(* i * cols + j of data.                                                   *)
(***************************************************************************)
Palette ==
    << <<10, 20, 30>>, <<40, 50, 60>>, <<70, 80, 90>>, <<100, 110, 120>>,
       <<1, 1, 2>>, <<255, 255, 255>>, <<255, 0, 0>>, <<0, 0, 0>>,
       <<254, 255, 255>> >>

Total(M) == M.rows * M.cols

\* Mat::at<T>(i, j): data + i * step + j
Offset(M, i, j) == i * M.cols + j

\* Mat::at's CV_DbgAssert: (unsigned)i < rows && (unsigned)j < cols
InMat(M, i, j) == 0 <= i /\ i < M.rows /\ 0 <= j /\ j < M.cols

\* A decoded 3-channel image of h rows and w columns.
SourceMat(h, w, seed) ==
    [rows |-> h, cols |-> w,
     data |-> [k \in 0 .. h * w - 1 |->
                 Palette[((k + seed) % Len(Palette)) + 1]]]

\* Mat(): what imread returns when it cannot decode.
EmptyMat == [rows |-> 0, cols |-> 0, data |-> [k \in {} |-> 0]]

\* line 131: Mat grayscaleImage(rows, cols, CV_8UC1); the bytes are not set.
NewMat(h, w) ==
    [rows |-> h, cols |-> w, data |-> [k \in 0 .. h * w - 1 |-> Uninit]]

Seeds == {0, 1}

\* The shapes rows x cols of at most MaxCells elements, 0 x n and n x 0 included.
Shapes ==
    {d \in (0 .. MaxCells) \X (0 .. MaxCells) : d[1] * d[2] <= MaxCells}

(***************************************************************************)
(* tbb::blocked_range2d<int>, grain size 1 in both dimensions (line 24).   *)
(***************************************************************************)
Range2d(r0, r1, c0, c1) == [r0 |-> r0, r1 |-> r1, c0 |-> c0, c1 |-> c1]

NoRange == Range2d(0, 0, 0, 0)

RowsSize(r) == r.r1 - r.r0

ColsSize(r) == r.c1 - r.c0

\* blocked_range2d::empty
empty(r) == ~(r.r0 < r.r1) \/ ~(r.c0 < r.c1)

\* blocked_range2d::is_divisible
is_divisible(r) == GrainSize < RowsSize(r) \/ GrainSize < ColsSize(r)

\* blocked_range2d::do_split: the columns are cut when
\* rows.size * cols.grainsize < cols.size * rows.grainsize, else the rows.
SplitsCols(r) == RowsSize(r) * GrainSize < ColsSize(r) * GrainSize

\* Where a blocked_range [b, e) may be cut: split takes b + (e - b) / 2,
\* proportional_split any other interior point.
CutPoints(b, e) == b + 1 .. e - 1

\* A mutant of RightPart: the new range starts one past the cut.
RightPartGap(r, m) ==
    IF SplitsCols(r) THEN Range2d(r.r0, r.r1, m + 1, r.c1)
    ELSE Range2d(m + 1, r.r1, r.c0, r.c1)

\* A mutant of RightPart: the new range starts one before the cut.
RightPartOverlap(r, m) ==
    IF SplitsCols(r) THEN Range2d(r.r0, r.r1, m - 1, r.c1)
    ELSE Range2d(m - 1, r.r1, r.c0, r.c1)

\* The range the splitting constructor builds: [m, end) of the cut dimension.
RightPart(r, m) ==
    IF SplitsCols(r) THEN Range2d(r.r0, r.r1, m, r.c1)
    ELSE Range2d(m, r.r1, r.c0, r.c1)

\* What the split leaves in the original range: [begin, m).
LeftPart(r, m) ==
    IF SplitsCols(r) THEN Range2d(r.r0, r.r1, r.c0, m)
    ELSE Range2d(r.r0, m, r.c0, r.c1)

Cuts(r) ==
    IF SplitsCols(r) THEN CutPoints(r.c0, r.c1) ELSE CutPoints(r.r0, r.r1)

Coords(r) == {<<i, j>> : i \in r.r0 .. r.r1 - 1, j \in r.c0 .. r.c1 - 1}

\* blocked_range2d<int>(0, input.rows, 0, input.cols)
FullRange(M) == Range2d(0, M.rows, 0, M.cols)

(***************************************************************************)
(* grayscaleConversion, lines 21-45: tbb::parallel_for over the full range *)
(* with the lambda of lines 25-43 as its body.  A task is a sub-range; a   *)
(* thread takes a task, may split it (the new right part is spawned), and  *)
(* runs the body on what it holds, one (i, j) iteration per step.          *)
(***************************************************************************)
Threads == 1 .. MaxWorkers

Idle == [st |-> "idle", r |-> NoRange, i |-> 0, j |-> 0]

Holding(r) == [st |-> "hold", r |-> r, i |-> r.r0, j |-> r.c0]

NoCtx == [cancelled |-> FALSE, captured |-> 0, thrown |-> 0, delivered |-> 0]

\* lines 28 and 31: the loop variables after the iteration (i, j) of range r;
\* i = r.r1 when both loops have ended.
Advance(r, i, j) ==
    IF j + 1 < r.c1 THEN <<i, j + 1>>
    ELSE IF i + 1 < r.r1 THEN <<i + 1, r.c0>>
    ELSE <<r.r1, r.c0>>

\* A mutant of AfterIteration: the body ends with the first row of its range.
AfterIterationOneRow(wk) ==
    IF wk.j + 1 < wk.r.c1
    THEN [st |-> "run", r |-> wk.r, i |-> wk.i, j |-> wk.j + 1]
    ELSE Idle

\* The thread's record after iteration (i, j): still in the body, or idle.
AfterIteration(wk) ==
    LET n == Advance(wk.r, wk.i, wk.j)
    IN  IF n[1] < wk.r.r1
        THEN [st |-> "run", r |-> wk.r, i |-> n[1], j |-> n[2]]
        ELSE Idle

\* The body has returned when the iteration (i, j) was its last.
Completes(wk) == Advance(wk.r, wk.i, wk.j)[1] >= wk.r.r1

\* lines 34-37: the byte computed for the source pixel (i, j)
GrayAt(M, i, j) == Stored(M.data[Offset(M, i, j)])

\* A mutant of StoreTo: the conversion done in place, into the input.
StoreToInput(input, output, off, v) ==
    <<[input EXCEPT !.data[off] = <<v, v, v>>], output>>

\* line 40: output.at<uchar>(i, j) = ...; the two Mats after the store.
StoreTo(input, output, off, v) ==
    <<input, [output EXCEPT !.data[off] = v]>>

\* A mutant of JoinReady: the call returns once nothing is left to take.
JoinReadyEarly == pool = {}

\* parallel_for's wait: no task is pending and no body is running.
JoinReady == pool = {} /\ \A w \in Threads : workers[w].st = "idle"

\* line 24: parallel_for(blocked_range2d<int>(0, input.rows, 0, input.cols), ...)
\* An empty range runs nothing and the call returns at once.
grayscaleConversion ==
    /\ pc = "call"
    /\ io' = [io EXCEPT !.converted = TRUE]
    /\ IF empty(FullRange(colorImage))
       THEN pc' = "returned" /\ pool' = pool
       ELSE pc' = "apply" /\ pool' = {FullRange(colorImage)}
    /\ UNCHANGED <<file_name, extension, exitCode, out, result, colorImage,
                   grayscaleImage, build, nworkers, workers, done, ctx, wlog,
                   heap, kernel>>

\* A thread of the arena takes a spawned task.
Take(w) ==
    /\ pc = "apply"
    /\ w <= nworkers
    /\ workers[w].st = "idle"
    /\ ~ctx.cancelled
    /\ \E r \in pool :
          /\ pool' = pool \ {r}
          /\ workers' = [workers EXCEPT ![w] = Holding(r)]
    /\ UNCHANGED <<pc, mainVars, colorImage, grayscaleImage, build, nworkers,
                   done, ctx, wlog, heap, kernel>>

\* The partitioner splits the range a thread holds before running the body.
Split(w) ==
    /\ pc = "apply"
    /\ workers[w].st = "hold"
    /\ is_divisible(workers[w].r)
    /\ \E m \in Cuts(workers[w].r) :
          /\ workers' = [workers EXCEPT ![w] = Holding(LeftPart(workers[w].r, m))]
          /\ pool' = pool \cup {RightPart(workers[w].r, m)}
    /\ UNCHANGED <<pc, mainVars, colorImage, grayscaleImage, build, nworkers,
                   done, ctx, wlog, heap, kernel>>

\* lines 28-41, one iteration whose store is inside the destination: the pixel
\* is read, averaged and stored.  A range with nothing to iterate just ends.
Store(w) ==
    LET wk == workers[w]
        k  == Offset(colorImage, wk.i, wk.j)
    IN  /\ pc = "apply"
        /\ wk.st \in {"hold", "run"}
        /\ IF empty(wk.r)
           THEN /\ workers' = [workers EXCEPT ![w] = Idle]
                /\ done' = done \cup {wk.r}
                /\ UNCHANGED <<colorImage, grayscaleImage, wlog>>
           ELSE /\ InMat(grayscaleImage, wk.i, wk.j)
                /\ LET mats == StoreTo(colorImage, grayscaleImage,
                                       Offset(grayscaleImage, wk.i, wk.j),
                                       GrayAt(colorImage, wk.i, wk.j))
                   IN  colorImage' = mats[1] /\ grayscaleImage' = mats[2]
                /\ wlog' = [wlog EXCEPT ![k] = Append(@, w)]
                /\ workers' = [workers EXCEPT ![w] = AfterIteration(wk)]
                /\ done' = IF Completes(wk) THEN done \cup {wk.r} ELSE done
        /\ UNCHANGED <<pc, mainVars, build, nworkers, pool, ctx, heap, kernel>>

\* parallel_for returns to its caller, or rethrows the captured exception.
Join ==
    /\ pc = "apply"
    /\ JoinReady
    /\ IF ctx.captured > 0
       THEN pc' = "threw" /\ ctx' = [ctx EXCEPT !.delivered = @ + 1]
       ELSE pc' = "returned" /\ ctx' = ctx
    /\ UNCHANGED <<mainVars, colorImage, grayscaleImage, build, nworkers, pool,
                   workers, done, wlog, heap, kernel>>

NoIo == [status |-> "absent", decoded |-> "none", converted |-> FALSE,
         written |-> "none", encoded |-> EmptyMat, shown |-> FALSE,
         displayed |-> EmptyMat]

NoName == [pad |-> 0, tail |-> << >>]

\* grayscaleConversion(input, output) about to be called on an image of
\* h x w with a destination of dh x dw.
AtCall(h, w, seed, dh, dw, b, n) ==
    /\ pc = "call"
    /\ file_name = NoName
    /\ extension = << >>
    /\ exitCode = -1
    /\ out = << >>
    /\ result = [default |-> FALSE, len |-> 0, ext |-> << >>]
    /\ io = NoIo
    /\ colorImage = SourceMat(h, w, seed)
    /\ grayscaleImage = NewMat(dh, dw)
    /\ build = b
    /\ nworkers = n
    /\ pool = {}
    /\ workers = [t \in Threads |-> Idle]
    /\ done = {}
    /\ ctx = NoCtx
    /\ wlog = [k \in 0 .. h * w - 1 |-> << >>]
    /\ heap = "ok"
    /\ kernel = NoKernel

InitApply ==
    \E d \in Shapes, seed \in Seeds, n \in Threads :
        AtCall(d[1], d[2], seed, d[1], d[2], "release", n)

NextApply ==
    \/ grayscaleConversion
    \/ \E w \in Threads : Take(w) \/ Split(w) \/ Store(w)
    \/ Join

SpecApply == InitApply /\ [][NextApply]_vars

(***************************************************************************)
(* grayscaleConversion called with a destination of another size.  The     *)
(* function checks nothing (lines 21-24), so the store of line 40 can fall *)
(* outside the destination: Mat::at then fails its CV_DbgAssert in a debug *)
(* build and is undefined behaviour in a release build, where the byte     *)
(* goes to data + i * cols + j, inside the buffer or past its end.         *)
(***************************************************************************)
Builds == {"release", "debug"}

\* A mutant of Capture: the exception is swallowed, nothing is kept to rethrow.
CaptureSwallowed(c) ==
    [c EXCEPT !.cancelled = TRUE, !.thrown = @ + 1]

\* An exception leaves a body: the context is cancelled and keeps the first
\* exception only.
Capture(c) ==
    [c EXCEPT !.cancelled = TRUE,
              !.captured = IF @ = 0 THEN 1 ELSE @,
              !.thrown = @ + 1]

\* line 40 in a debug build, (i, j) outside the destination: cv::Exception
\* leaves the body.  The context keeps the first exception and is cancelled.
StoreThrows(w) ==
    LET wk == workers[w]
    IN  /\ pc = "apply"
        /\ wk.st \in {"hold", "run"}
        /\ ~empty(wk.r)
        /\ build = "debug"
        /\ ~InMat(grayscaleImage, wk.i, wk.j)
        /\ workers' = [workers EXCEPT ![w] = Idle]
        /\ ctx' = Capture(ctx)
        /\ UNCHANGED <<pc, mainVars, colorImage, grayscaleImage, build,
                       nworkers, pool, done, wlog, heap, kernel>>

\* line 40 in a release build, (i, j) outside the destination: the byte lands
\* on another element of the buffer, or past the buffer's end.
StoreWild(w) ==
    LET wk  == workers[w]
        k   == Offset(colorImage, wk.i, wk.j)
        off == Offset(grayscaleImage, wk.i, wk.j)
    IN  /\ pc = "apply"
        /\ wk.st \in {"hold", "run"}
        /\ ~empty(wk.r)
        /\ build = "release"
        /\ ~InMat(grayscaleImage, wk.i, wk.j)
        /\ IF off < Total(grayscaleImage)
           THEN /\ grayscaleImage' =
                      [grayscaleImage EXCEPT
                         !.data[off] = GrayAt(colorImage, wk.i, wk.j)]
                /\ heap' = heap
           ELSE /\ grayscaleImage' = grayscaleImage
                /\ heap' = "corrupt"
        /\ wlog' = [wlog EXCEPT ![k] = Append(@, w)]
        /\ workers' = [workers EXCEPT ![w] = AfterIteration(wk)]
        /\ done' = IF Completes(wk) THEN done \cup {wk.r} ELSE done
        /\ UNCHANGED <<pc, mainVars, colorImage, build, nworkers, pool, ctx,
                       kernel>>

\* The same store past the buffer's end, hitting an unmapped page.
StoreCrash(w) ==
    LET wk  == workers[w]
    IN  /\ pc = "apply"
        /\ wk.st \in {"hold", "run"}
        /\ ~empty(wk.r)
        /\ build = "release"
        /\ ~InMat(grayscaleImage, wk.i, wk.j)
        /\ Offset(grayscaleImage, wk.i, wk.j) >= Total(grayscaleImage)
        /\ pc' = "crashed"
        /\ UNCHANGED <<mainVars, applyVars, kernel>>

\* A task of a cancelled context is not executed.
DropTask ==
    /\ pc = "apply"
    /\ ctx.cancelled
    /\ \E r \in pool : pool' = pool \ {r}
    /\ UNCHANGED <<pc, mainVars, colorImage, grayscaleImage, build, nworkers,
                   workers, done, ctx, wlog, heap, kernel>>

\* A thread that has not started the body gives its range up once the context
\* is cancelled.
DropHeld(w) ==
    /\ pc = "apply"
    /\ ctx.cancelled
    /\ workers[w].st = "hold"
    /\ workers' = [workers EXCEPT ![w] = Idle]
    /\ UNCHANGED <<pc, mainVars, colorImage, grayscaleImage, build, nworkers,
                   pool, done, ctx, wlog, heap, kernel>>

InitCaller ==
    \E d \in Shapes, seed \in Seeds, n \in Threads, dd \in Shapes, b \in Builds :
        AtCall(d[1], d[2], seed, dd[1], dd[2], b, n)

NextCaller ==
    \/ grayscaleConversion
    \/ \E w \in Threads : Take(w) \/ Split(w) \/ Store(w)
    \/ \E w \in Threads : StoreThrows(w) \/ StoreWild(w) \/ StoreCrash(w)
    \/ DropTask
    \/ \E w \in Threads : DropHeld(w)
    \/ Join

SpecCaller == InitCaller /\ [][NextCaller]_vars

(***************************************************************************)
(* The sequential reference: one thread, row-major, the same byte per      *)
(* pixel.                                                                  *)
(***************************************************************************)
RECURSIVE SeqLoop(_, _, _, _)
SeqLoop(M, D, i, j) ==
    IF i >= M.rows THEN D
    ELSE IF j >= M.cols THEN SeqLoop(M, D, i + 1, 0)
    ELSE SeqLoop(M,
                 [D EXCEPT !.data[i * M.cols + j] =
                     Stored(M.data[i * M.cols + j])],
                 i, j + 1)

Sequential(M) == SeqLoop(M, NewMat(M.rows, M.cols), 0, 0)

SourceCoords == Coords(FullRange(colorImage))

Writers(k) == {wlog[k][n] : n \in 1 .. Len(wlog[k])}

\* The sub-ranges of the call, each with where it is: 0 pending, a thread's
\* number while that thread holds or runs it, -1 completed.
Parts ==
    {<<0, r>> : r \in pool}
      \cup {<<w, workers[w].r>> : w \in {t \in Threads : workers[t].st # "idle"}}
      \cup {<<-1, r>> : r \in done}

DimsDiffer ==
    \/ grayscaleImage.rows # colorImage.rows
    \/ grayscaleImage.cols # colorImage.cols

AllIdle == \A w \in Threads : workers[w].st = "idle"

(***************************************************************************)
(* The claims about grayscaleConversion.                                   *)
(***************************************************************************)

\* C1 (SpecApply): no coordinate of the source range is ever stored to twice,
\* and when grayscaleConversion has returned every coordinate (r, c) with
\* 0 <= r < rows and 0 <= c < cols has been stored to exactly once; with 0
\* rows or 0 columns that is no store at all.
C1_Coverage ==
    /\ \A k \in DOMAIN wlog : Len(wlog[k]) <= 1
    /\ pc = "returned" =>
          /\ \A c \in SourceCoords :
                /\ Len(wlog[Offset(colorImage, c[1], c[2])]) = 1
                /\ grayscaleImage.data[Offset(grayscaleImage, c[1], c[2])] # Uninit
          /\ Cardinality(DOMAIN wlog) = Cardinality(SourceCoords)

C1_Witness ==
    /\ pc = "returned"
    /\ colorImage.rows = 2 /\ colorImage.cols = 2
    /\ Cardinality(done) >= 3
    /\ Writers(0) # Writers(3)

\* C2 (SpecApply): for every source, thread count and interleaving, the
\* destination after the return equals, element for element, the destination
\* of the single-threaded row-major loop.
C2_SequentialEquivalence ==
    pc = "returned" => grayscaleImage = Sequential(colorImage)

C2_Witness ==
    /\ pc = "returned"
    /\ nworkers = 2
    /\ colorImage.rows = 2 /\ colorImage.cols = 2
    /\ Writers(0) # Writers(1)
    /\ grayscaleImage.data = [k \in 0 .. 3 |-> <<20, 50, 80, 110>>[k + 1]]

\* C4 (SpecApply): while the call runs and once it has returned, the pending,
\* held and completed sub-ranges are pairwise disjoint and cover exactly
\* [0, rows) x [0, cols); no coordinate has two writing threads.
C4_Partition ==
    /\ pc \in {"apply", "returned"} =>
          /\ \A p, q \in Parts :
                p # q => Coords(p[2]) \cap Coords(q[2]) = {}
          /\ UNION {Coords(p[2]) : p \in Parts} = SourceCoords
    /\ \A k \in DOMAIN wlog : Cardinality(Writers(k)) <= 1

C4_Witness ==
    /\ pc = "apply"
    /\ pool # {}
    /\ done # {}
    /\ \E v, w \in Threads :
          v # w /\ workers[v].st # "idle" /\ workers[w].st # "idle"

\* C9 (SpecApply): every step of the call leaves the source Mat, the shape of
\* both Mats, the memory outside them and main's variables as they were; the
\* destination bytes it changes are those of coordinates of the source range.
C9_Frame ==
    [][/\ colorImage' = colorImage
       /\ grayscaleImage'.rows = grayscaleImage.rows
       /\ grayscaleImage'.cols = grayscaleImage.cols
       /\ DOMAIN grayscaleImage'.data = DOMAIN grayscaleImage.data
       /\ \A k \in DOMAIN grayscaleImage.data :
             grayscaleImage'.data[k] # grayscaleImage.data[k] =>
                \E c \in SourceCoords : k = Offset(grayscaleImage, c[1], c[2])
       /\ heap' = heap
       /\ <<file_name, extension, exitCode, out, result>>'
             = <<file_name, extension, exitCode, out, result>>]_vars

C9_Witness ==
    /\ pc = "apply"
    /\ \E k \in DOMAIN grayscaleImage.data : grayscaleImage.data[k] # Uninit
    /\ \E k \in DOMAIN grayscaleImage.data : grayscaleImage.data[k] = Uninit

\* C3 (SpecCaller), the claim as stated: with a destination whose rows or
\* cols differ from the source's, the call ends in a precondition failure
\* raised before any task is dispatched, and nothing is stored.
C3_MismatchRejected ==
    (DimsDiffer /\ pc # "call") =>
        /\ pc = "threw"
        /\ ctx.thrown = 0
        /\ pool = {} /\ AllIdle /\ done = {}
        /\ \A k \in DOMAIN wlog : wlog[k] = << >>
        /\ heap = "ok"

\* C7 (SpecCaller): the caller is handed at most one exception; a call that
\* has ended after one or more bodies threw has handed over exactly one; and
\* it is handed over only when no task is pending and no body is running.
C7_OneFailure ==
    /\ ctx.delivered <= 1
    /\ (pc \in {"returned", "threw"} /\ ctx.thrown >= 1) =>
          (pc = "threw" /\ ctx.delivered = 1)
    /\ ctx.delivered >= 1 => (ctx.thrown >= 1 /\ pool = {} /\ AllIdle)

C7_Witness ==
    /\ pc = "threw"
    /\ ctx.thrown >= 2
    /\ ctx.delivered = 1
    /\ \E k \in DOMAIN wlog : wlog[k] # << >>

(***************************************************************************)
(* main, lines 47-160.  A std::string is the sequence of its characters;   *)
(* file_name is [pad, tail]: pad characters 'x' followed by tail, so that  *)
(* names of 255 and 256 characters are states of the model.                *)
(***************************************************************************)
npos == -1

Upper ==
    <<"A", "B", "C", "D", "E", "F", "G", "H", "I", "J", "K", "L", "M",
      "N", "O", "P", "Q", "R", "S", "T", "U", "V", "W", "X", "Y", "Z">>

LowerOf ==
    <<"a", "b", "c", "d", "e", "f", "g", "h", "i", "j", "k", "l", "m",
      "n", "o", "p", "q", "r", "s", "t", "u", "v", "w", "x", "y", "z">>

\* ::tolower on one character
tolower(ch) ==
    IF \E n \in DOMAIN Upper : Upper[n] = ch
    THEN LowerOf[CHOOSE n \in DOMAIN Upper : Upper[n] = ch]
    ELSE ch

\* line 84: transform(begin, end, begin, ::tolower)
ToLowerAll(str) == [n \in DOMAIN str |-> tolower(str[n])]

\* string::length
Length(f) == f.pad + Len(f.tail)

\* string::find_last_of(ch), for a character that is not the padding 'x':
\* the 0-based position of the last ch, or npos.
find_last_of(f, ch) ==
    IF \E n \in DOMAIN f.tail : f.tail[n] = ch
    THEN f.pad + (CHOOSE n \in DOMAIN f.tail :
                    /\ f.tail[n] = ch
                    /\ \A m \in DOMAIN f.tail : f.tail[m] = ch => m <= n) - 1
    ELSE npos

\* string::substr(pos), for a position inside tail
substr(f, pos) == SubSeq(f.tail, pos - f.pad + 1, Len(f.tail))

\* line 81
supported_extensions ==
    << <<".", "j", "p", "g">>, <<".", "p", "n", "g">>, <<".", "b", "m", "p">>,
       <<".", "j", "p", "e", "g">>, <<".", "t", "i", "f", "f">> >>

\* lines 88-94
is_supported(ext) ==
    \E n \in DOMAIN supported_extensions : supported_extensions[n] = ext

\* line 87: file_name.length() >= 4 && file_name.length() < 256
LengthOk(f) == Length(f) >= MinNameLen /\ Length(f) < NameLenLimit

\* What the user may type at line 61 ("" when cin is at its end).
FileNames ==
    { [pad |-> 0, tail |-> <<>>],
      [pad |-> 0, tail |-> <<"p", "n", "g">>],
      [pad |-> 0, tail |-> <<"a", "b", "c", "d">>],
      [pad |-> NameLenLimit - 4, tail |-> <<"a", "b", "c", "d">>],
      [pad |-> 0, tail |-> <<".">>],
      [pad |-> 0, tail |-> <<"a", ".", "p">>],
      [pad |-> 0, tail |-> <<"a", ".">>],
      [pad |-> 0, tail |-> <<"a", "b", ".", "c">>],
      [pad |-> 0, tail |-> <<"a", ".", "g", "i", "f">>],
      [pad |-> 0, tail |-> <<"a", ".", "P", "N", "A">>],
      [pad |-> 0, tail |-> <<"Q", ".", "B", "M", "P">>],
      [pad |-> 0, tail |-> <<"a", ".", "p", "n", "g", ".", "t", "x", "t">>],
      [pad |-> 0, tail |-> <<"p", "n", "g", ".">>],
      [pad |-> NameLenLimit - 6, tail |-> <<"a", ".", "g", "i", "f">>],
      [pad |-> NameLenLimit - 5, tail |-> <<"a", ".", "g", "i", "f">>],
      [pad |-> 0, tail |-> <<".", "p", "n", "g">>],
      [pad |-> 0, tail |-> <<"a", ".", "P", "n", "G">>],
      [pad |-> 0, tail |-> <<"a", ".", "j", "p", "g">>],
      [pad |-> 0, tail |-> <<"a", ".", "J", "P", "E", "G">>],
      [pad |-> 0, tail |-> <<"a", ".", "b", "m", "p">>],
      [pad |-> 0, tail |-> <<"a", ".", "t", "i", "f", "f">>],
      [pad |-> 0, tail |-> <<"a", ".", "b", ".", "p", "n", "g">>],
      [pad |-> NameLenLimit - 6, tail |-> <<"a", ".", "p", "n", "g">>],
      [pad |-> NameLenLimit - 5, tail |-> <<"a", ".", "p", "n", "g">>],
      [pad |-> NameLenLimit - 4, tail |-> <<".", "p", "n", "g">>] }

\* What cin >> result may leave in result (line 142): its length.
ResultLengths == {0, 1, MaxResultLen, MaxResultLen + 1}

\* The images imread can decode: at least one row and one column.
Decodable == {d \in Shapes : d[1] >= 1 /\ d[2] >= 1}

NoResult == [default |-> FALSE, len |-> 0, ext |-> << >>]

\* return n, after the message on cerr
Leave(code, msg) ==
    /\ pc' = "exit"
    /\ exitCode' = code
    /\ out' = Append(out, msg)

\* What the file system can say of a name: a file is there, none is, or the
\* status cannot be had (a symbolic link to itself, a directory that may not
\* be searched).
FileStatus == {"exists", "absent", "error"}

\* lines 48, 59-61: the banner, the prompt and cin >> file_name, with what the
\* file system holds under that name.
ReadFileName ==
    /\ pc = "start"
    /\ \E f \in FileNames, st \in FileStatus :
          /\ file_name' = f
          /\ io' = [io EXCEPT !.status = st]
    /\ out' = out \o <<"author", "prompt">>
    /\ pc' = "find_ext"
    /\ UNCHANGED <<extension, exitCode, result, applyVars, kernel>>

\* lines 63-75
FindExtension ==
    LET extension_dot_pos == find_last_of(file_name, ".")
    IN  /\ pc = "find_ext"
        /\ IF extension_dot_pos # npos /\ extension_dot_pos < Length(file_name)
           THEN /\ extension' = substr(file_name, extension_dot_pos)
                /\ pc' = "validate"
                /\ UNCHANGED <<exitCode, out>>
           ELSE /\ Leave(1, "no_extension")
                /\ UNCHANGED extension
        /\ UNCHANGED <<file_name, result, io, applyVars, kernel>>

\* lines 84-95 and 108-122: the extension in lower case, the length check and
\* the search of the supported extensions.
ValidateName ==
    /\ pc = "validate"
    /\ extension' = ToLowerAll(extension)
    /\ IF LengthOk(file_name)
       THEN IF is_supported(ToLowerAll(extension))
            THEN pc' = "load" /\ UNCHANGED <<exitCode, out>>
            ELSE Leave(3, "unsupported_format")
       ELSE Leave(4, "bad_length")
    /\ UNCHANGED <<file_name, result, io, applyVars, kernel>>

\* lines 97-106: filesystem::exists and imread.  exists(path) is the throwing
\* overload: when the status cannot be had it throws filesystem_error, main
\* catches nothing and the program is terminated.  imread returns an empty
\* Mat when the file cannot be read or decoded; it does not throw.
LoadImage ==
    /\ pc = "load"
    /\ IF io.status = "error"
       THEN /\ pc' = "aborted"
            /\ UNCHANGED <<exitCode, out, colorImage, io>>
       ELSE IF io.status = "exists"
       THEN /\ \/ \E d \in Decodable, seed \in Seeds :
                    /\ colorImage' = SourceMat(d[1], d[2], seed)
                    /\ io' = [io EXCEPT !.decoded = "ok"]
               \/ /\ colorImage' = EmptyMat
                  /\ io' = [io EXCEPT !.decoded = "failed"]
            /\ pc' = "report"
            /\ UNCHANGED <<exitCode, out>>
       ELSE /\ Leave(2, "not_found")
            /\ UNCHANGED <<colorImage, io>>
    /\ UNCHANGED <<file_name, extension, result, grayscaleImage, build,
                   nworkers, pool, workers, done, ctx, wlog, heap, kernel>>

\* lines 123-131: the success message, the dimensions, and the destination
\* Mat of the same size.
ReportAndAllocate ==
    /\ pc = "report"
    /\ out' = out \o <<"read_successfully", "dimensions">>
    /\ grayscaleImage' = NewMat(colorImage.rows, colorImage.cols)
    /\ wlog' = [k \in 0 .. Total(colorImage) - 1 |-> << >>]
    /\ pc' = "call"
    /\ UNCHANGED <<file_name, extension, exitCode, result, io, colorImage,
                   build, nworkers, pool, workers, done, ctx, heap, kernel>>

\* lines 137-149: the message, cin >> result and the name built from it.
NameResult ==
    /\ pc = "returned"
    /\ \E n \in ResultLengths :
          IF n = 0 \/ n > MaxResultLen
          THEN /\ result' = [default |-> TRUE, len |-> 16, ext |-> << >>]
               /\ out' = out \o <<"done", "name_prompt", "invalid_name">>
          ELSE /\ result' = [default |-> FALSE, len |-> n + Len(extension),
                             ext |-> extension]
               /\ out' = out \o <<"done", "name_prompt">>
    /\ pc' = "imwrite"
    /\ UNCHANGED <<file_name, extension, exitCode, io, applyVars, kernel>>

\* What imwrite can do with this image under this name: it cannot encode an
\* empty Mat or pick an encoder for a name without extension (it throws, or
\* returns false), and any write can fail.
WriteOutcomes ==
    IF Total(grayscaleImage) = 0 \/ result.ext = << >>
    THEN {"failed", "threw"}
    ELSE {"ok", "failed"}

\* line 150: imwrite(result, grayscaleImage); its value is not looked at, an
\* exception ends the program.
Imwrite ==
    /\ pc = "imwrite"
    /\ \E o \in WriteOutcomes :
          /\ io' = [io EXCEPT !.written = o,
                              !.encoded = IF o = "ok" THEN grayscaleImage ELSE @]
          /\ pc' = IF o = "threw" THEN "aborted" ELSE "display"
    /\ UNCHANGED <<file_name, extension, exitCode, out, result, applyVars,
                   kernel>>

\* lines 153-159: both images are shown and main returns 0; imshow throws on
\* an empty Mat.
Display ==
    /\ pc = "display"
    /\ IF Total(colorImage) = 0
       THEN pc' = "aborted" /\ UNCHANGED <<io, exitCode>>
       ELSE /\ io' = [io EXCEPT !.shown = TRUE, !.displayed = grayscaleImage]
            /\ exitCode' = 0
            /\ pc' = "exit"
    /\ UNCHANGED <<file_name, extension, out, result, applyVars, kernel>>

Init ==
    /\ pc = "start"
    /\ file_name = NoName
    /\ extension = << >>
    /\ exitCode = -1
    /\ out = << >>
    /\ result = NoResult
    /\ io = NoIo
    /\ colorImage = EmptyMat
    /\ grayscaleImage = EmptyMat
    /\ build \in Builds
    /\ nworkers \in Threads
    /\ pool = {}
    /\ workers = [t \in Threads |-> Idle]
    /\ done = {}
    /\ ctx = NoCtx
    /\ wlog = [k \in {} |-> << >>]
    /\ heap = "ok"
    /\ kernel = NoKernel

Next ==
    \/ ReadFileName
    \/ FindExtension
    \/ ValidateName
    \/ LoadImage
    \/ ReportAndAllocate
    \/ grayscaleConversion
    \/ \E w \in Threads : Take(w) \/ Split(w) \/ Store(w)
    \/ Join
    \/ NameResult
    \/ Imwrite
    \/ Display

Spec == Init /\ [][Next]_vars

(***************************************************************************)
(* The claims about main.                                                  *)
(***************************************************************************)
\* main has come back from grayscaleConversion.
PastTheCall ==
    io.converted /\ pc \in {"returned", "imwrite", "display", "aborted", "exit"}

\* C5 (Spec): once grayscaleConversion has returned to main no task is pending
\* and no body is running, the completed sub-ranges cover the image, and
\* every byte of the destination has its final value: the image handed to
\* imwrite and the one handed to imshow are the fully converted image.
C5_JoinBeforeReturn ==
    /\ PastTheCall =>
          /\ pool = {} /\ AllIdle
          /\ UNION {Coords(r) : r \in done} = SourceCoords
          /\ \A k \in DOMAIN grayscaleImage.data :
                grayscaleImage.data[k] = Stored(colorImage.data[k])
    /\ io.written = "ok" => io.encoded = Sequential(colorImage)
    /\ io.shown => io.displayed = Sequential(colorImage)

C5_Witness ==
    /\ pc = "exit" /\ exitCode = 0
    /\ io.written = "ok" /\ io.shown
    /\ Cardinality(done) >= 3
    /\ Total(io.displayed) = MaxCells

\* C8 (Spec), the claim as stated: when imread could not decode the file,
\* main never prints the success message, never calls grayscaleConversion
\* and never calls imwrite.
C8_DecodeFailureIsFatal ==
    io.decoded = "failed" =>
        /\ \A n \in DOMAIN out : out[n] # "read_successfully"
        /\ ~io.converted
        /\ io.written = "none"

\* The file name as the claim reads it.
HasDot(f) == \E n \in DOMAIN f.tail : f.tail[n] = "."

EndsWithNoCase(f, ext) ==
    /\ Len(f.tail) >= Len(ext)
    /\ \A n \in DOMAIN ext :
          tolower(f.tail[Len(f.tail) - Len(ext) + n]) = ext[n]

SupportedName(f) ==
    \E n \in DOMAIN supported_extensions :
        EndsWithNoCase(f, supported_extensions[n])

ExpectedExit ==
    IF ~HasDot(file_name) THEN 1
    ELSE IF ~(Length(file_name) \in MinNameLen .. NameLenLimit - 1) THEN 4
    ELSE IF ~SupportedName(file_name) THEN 3
    ELSE IF io.status # "exists" THEN 2
    ELSE 0

\* C10 (Spec), the claim as stated: imread, grayscaleConversion and imwrite
\* are reached only with a file name that has a '.', 4 to 255 characters, a
\* supported extension (case ignored) and names an existing file; with any
\* other name main stops by returning 1 (no '.'), 4 (length), 3 (extension) or
\* 2 (no such file), the first of these that applies, with nothing decoded,
\* converted or written.
C10_NameChecks ==
    /\ (io.decoded # "none" \/ io.converted \/ io.written # "none") =>
          ExpectedExit = 0
    /\ (pc \in {"load", "report", "call", "apply"}) => ExpectedExit \in {0, 2}
    /\ pc = "exit" => exitCode = ExpectedExit
    /\ (pc = "exit" /\ exitCode # 0) =>
          (io.decoded = "none" /\ ~io.converted /\ io.written = "none")
    /\ ExpectedExit # 0 => pc # "aborted"

\* The part of C10 that the code does keep (Spec): the gate before imread,
\* and the codes and their order whenever main returns.
NameChecksWhenReturning ==
    /\ (io.decoded # "none" \/ io.converted \/ io.written # "none") =>
          ExpectedExit = 0
    /\ pc = "exit" => exitCode = ExpectedExit
    /\ pc = "aborted" => (ExpectedExit \in {0, 2} /\ LengthOk(file_name))

(***************************************************************************)
(* The arithmetic of lines 34-40 on one pixel.                             *)
(***************************************************************************)
Channel == 0 .. UCHAR_MAX

Edges == {0, 1, 2, 127, 128, UCHAR_MAX - 1, UCHAR_MAX}

\* Vec3b values: one channel over its whole range, the other two at the edges.
KernelPixels ==
    {<<a, b, c>> : a \in Channel, b \in Edges, c \in Edges}
      \cup {<<b, a, c>> : a \in Channel, b \in Edges, c \in Edges}
      \cup {<<b, c, a>> : a \in Channel, b \in Edges, c \in Edges}

\* lines 34-40 for the pixel at hand
RunKernel ==
    /\ pc = "kernel"
    /\ ~kernel.ran
    /\ kernel' = [pixel |-> kernel.pixel,
                  sum |-> Sum3(kernel.pixel),
                  gray_value |-> gray_value(kernel.pixel),
                  stored |-> Stored(kernel.pixel),
                  ran |-> TRUE]
    /\ UNCHANGED <<pc, mainVars, applyVars>>

InitKernel ==
    /\ pc = "kernel"
    /\ file_name = NoName
    /\ extension = << >>
    /\ exitCode = -1
    /\ out = << >>
    /\ result = NoResult
    /\ io = NoIo
    /\ colorImage = EmptyMat
    /\ grayscaleImage = EmptyMat
    /\ build = "release"
    /\ nworkers = 1
    /\ pool = {}
    /\ workers = [t \in Threads |-> Idle]
    /\ done = {}
    /\ ctx = NoCtx
    /\ wlog = [k \in {} |-> << >>]
    /\ heap = "ok"
    /\ \E p \in KernelPixels : kernel = [NoKernel EXCEPT !.pixel = p]

NextKernel == RunKernel

SpecKernel == InitKernel /\ [][NextKernel]_vars

\* C6 (SpecKernel): for channels a, b, c in 0..255 the byte stored is
\* floor((a + b + c) / 3), unweighted; the sum is a + b + c itself and at
\* most 765, and gray_value is in 0..255, so the cast to uchar changes nothing.
C6_Kernel ==
    kernel.ran =>
        LET a == kernel.pixel[1]
            b == kernel.pixel[2]
            c == kernel.pixel[3]
        IN  /\ kernel.sum = a + b + c
            /\ kernel.sum <= 3 * UCHAR_MAX
            /\ 3 * kernel.stored <= a + b + c
            /\ a + b + c < 3 * kernel.stored + 3
            /\ kernel.stored \in Channel
            /\ kernel.stored = kernel.gray_value

C6_Witness ==
    /\ kernel.ran
    /\ kernel.pixel = <<1, 1, 2>>
    /\ kernel.stored = 1

====
